---------------------------- MODULE Spec2Model ----------------------------
(***************************************************************************)
(* A model of the DNS name decoder of dns-parser (src/src/name.rs):        *)
(* Name::scan, Name::byte_len, Name::bytes, NameBytes::next and the        *)
(* Display rendering of a Name.                                            *)
(*                                                                         *)
(* A packet buffer is a sequence of bytes (0..255).  Every Rust slice of   *)
(* the model is a sub-slice of the packet buffer `original`, and is kept   *)
(* as a pair of 0-based offsets [s, e) into it.                            *)
(***************************************************************************)
EXTENDS Integers, Sequences, FiniteSets, TLC

VARIABLES
    original,         \* the packet buffer (Name.original)
    data,             \* the slice handed to Name::scan
    overflow_checks,  \* the build: TRUE when integer overflow panics
    scan,             \* the locals and the outcome of Name::scan
    it,               \* the NameBytes iterator
    out,              \* the bytes yielded by the iterator so far
    text              \* what the Display rendering wrote

vars == <<original, data, overflow_checks, scan, it, out, text>>

\* ------------------------------------------------------------------ bounds

\* Every buffer over Alphabet of length 0..MaxLen is scanned, from every
\* sub-slice of it.
MaxLen == 4

\* 0: terminator; 1, 2, 3: label lengths, label contents and pointer offsets;
\* 128: a reserved label type (top bits 10) and, inside a label, a byte that
\* is not UTF-8; 192: the high byte of a compression pointer.
Alphabet == {0, 1, 2, 3, 128, 192}

\* The buffers of the tests of name.rs and of the cases the small buffers
\* cannot hold.
SameOffsetBuf == <<192, 2, 192, 2>>
ForwardOffsetBuf == <<192, 2, 192, 4, 192, 2>>
NestedBuf == <<2, 120, 120, 0, 2, 121, 121, 192, 0, 2, 122, 122, 192, 4>>
PointerToPointerBuf == <<1, 97, 0, 192, 0, 192, 3>>
LabelThenRootPointerBuf == <<0, 1, 97, 192, 0>>

ExampleBuffers ==
    {SameOffsetBuf, ForwardOffsetBuf, NestedBuf, PointerToPointerBuf,
     LabelThenRootPointerBuf}

RECURSIVE SeqsUpTo(_)
SeqsUpTo(n) ==
    IF n = 0 THEN {<<>>}
    ELSE LET shorter == SeqsUpTo(n - 1) IN
         shorter \cup {Append(q, b) : q \in {x \in shorter : Len(x) = n - 1},
                                      b \in Alphabet}

Buffers == SeqsUpTo(MaxLen) \cup ExampleBuffers

\* ------------------------------------------------------------------ slices

Slice(s, e) == [s |-> s, e |-> e]

SLen(sl) == sl.e - sl.s

\* The byte of `original` at the 0-based offset i.
At(i) == original[i + 1]

\* The bytes of a slice, as a sequence.
SliceBytes(sl) == [i \in 1..SLen(sl) |-> At(sl.s + i - 1)]

\* Option<usize>: None is the empty sequence, Some(p) is <<p>>.
None == <<>>

Some(p) == <<p>>


\* --------------------------------------------------------------- from_utf8

IsCont(b) == b >= 128 /\ b <= 191

\* std::str::from_utf8(..).is_ok() on a byte sequence: the well-formed UTF-8
\* byte sequences (one to four bytes per scalar value, no overlong forms, no
\* surrogates, nothing above U+10FFFF).
RECURSIVE Utf8Valid(_)
Utf8Valid(q) ==
    IF Len(q) = 0 THEN TRUE
    ELSE LET b == q[1]
             n == Len(q)
         IN
         IF b < 128 THEN Utf8Valid(Tail(q))
         ELSE IF b >= 194 /\ b <= 223
         THEN n >= 2 /\ IsCont(q[2]) /\ Utf8Valid(SubSeq(q, 3, n))
         ELSE IF b >= 224 /\ b <= 239
         THEN /\ n >= 3
              /\ \/ b = 224 /\ q[2] >= 160 /\ q[2] <= 191
                 \/ b >= 225 /\ b <= 236 /\ IsCont(q[2])
                 \/ b = 237 /\ q[2] >= 128 /\ q[2] <= 159
                 \/ b >= 238 /\ IsCont(q[2])
              /\ IsCont(q[3])
              /\ Utf8Valid(SubSeq(q, 4, n))
         ELSE IF b >= 240 /\ b <= 244
         THEN /\ n >= 4
              /\ \/ b = 240 /\ q[2] >= 144 /\ q[2] <= 191
                 \/ b >= 241 /\ b <= 243 /\ IsCont(q[2])
                 \/ b = 244 /\ q[2] >= 128 /\ q[2] <= 143
              /\ IsCont(q[3])
              /\ IsCont(q[4])
              /\ Utf8Valid(SubSeq(q, 5, n))
         ELSE FALSE

\* ------------------------------------------------------------- Name::scan

\* usize arithmetic is modular.  The only wrap of the code is 0 - 1 followed
\* by + 2, whose result (1) is the same for every width; 2^16 stands for the
\* width of usize, the 2^64 of a 64-bit target being beyond TLC's integers.
UsizeModulus == 2 ^ 16

\* byte & 0b1100_0000 == 0b1100_0000
IsPointerByte(b) == b \div 64 = 3

\* byte & 0b1100_0000 == 0
IsLabelByte(b) == b \div 64 = 0

\* u16::from_be_bytes([hi, lo]) & !0b1100_0000_0000_0000
PointerOffset(hi, lo) == (hi * 256 + lo) % 16384

\* The state of a call of Name::scan that has not started.
NotCalled ==
    [status |-> "idle", d |-> Slice(0, 0), w |-> Slice(0, 0), pos |-> 0,
     return_pos |-> None,
     largest_pos |-> 0, byte |-> 0, wrapped |-> FALSE, labels |-> Slice(0, 0)]

Fail(st, err) == [st EXCEPT !.status = err]

\* byte = parse_data[pos]: an index out of the window panics.
ReadByte(st) ==
    IF st.pos < SLen(st.w)
    THEN [st EXCEPT !.byte = At(st.w.s + st.pos)]
    ELSE Fail(st, "Panic")

\* Lines 33-42: the locals, the check of an empty `data`, the first byte.
ScanCall(d) ==
    IF SLen(d) <= 0
    THEN Fail([NotCalled EXCEPT !.d = d, !.w = d], "UnexpectedEOF")
    ELSE ReadByte([NotCalled EXCEPT !.status = "run", !.d = d, !.w = d,
                                    !.largest_pos = Len(original)])

\* Line 53 with > for >=.
OffsetBeyondBufferLax(off) == off > Len(original)

\* Line 53: the pointer's offset is not inside the buffer.
OffsetBeyondBuffer(off) == off >= Len(original)

\* Line 65 with > for >=: a pointer to the previous target is followed.
PointerRejectedLax(off, largest_pos) == off > largest_pos

\* Line 65: the pointer does not go strictly backwards.
PointerRejected(off, largest_pos) == off >= largest_pos

\* Line 68 left out: the bound stays where it was.
NextLargestPosKept(off, largest_pos) == largest_pos

\* Line 68: the bound of the next pointer is the offset just followed.
NextLargestPos(off, largest_pos) == off

\* Lines 59-61: return_pos is set by the first pointer only.
RecordReturnPos(return_pos, pos) ==
    IF return_pos = None THEN Some(pos) ELSE return_pos

\* Lines 47-70: the byte at pos starts a compression pointer.
FollowPointer(st) ==
    IF SLen(st.w) < st.pos + 2 THEN Fail(st, "UnexpectedEOF")
    ELSE LET off == PointerOffset(At(st.w.s + st.pos), At(st.w.s + st.pos + 1))
         IN
         IF OffsetBeyondBuffer(off) THEN Fail(st, "UnexpectedEOF")
         ELSE LET seen == [st EXCEPT
                             !.return_pos = RecordReturnPos(@, st.pos)]
              IN
              IF PointerRejected(off, st.largest_pos)
              THEN Fail(seen, "BadPointer")
              ELSE IF off > Len(original) THEN Fail(seen, "Panic")
              ELSE ReadByte([seen EXCEPT
                               !.largest_pos = NextLargestPos(off, @),
                               !.pos = 0,
                               !.w = Slice(off, Len(original))])

\* Line 80 with < for <=.
NoByteAfterLabelLax(len, pos) == len < pos

\* Line 80: no byte is left after the label for the next length octet.
NoByteAfterLabel(len, pos) == len <= pos

\* Lines 71-82: the byte at pos is the length of a normal label.
TakeLabel(st) ==
    LET end == st.pos + st.byte + 1 IN
    IF SLen(st.w) < end THEN Fail(st, "UnexpectedEOF")
    ELSE IF ~Utf8Valid(SliceBytes(Slice(st.w.s + st.pos + 1, st.w.s + end)))
    THEN Fail(st, "LabelIsNotUtf8")
    ELSE IF NoByteAfterLabel(SLen(st.w), end)
    THEN Fail([st EXCEPT !.pos = end], "UnexpectedEOF")
    ELSE ReadByte([st EXCEPT !.pos = end])

\* Line 91 with + 1 for + 2.
WindowStopShort(rp) == (rp + 1) % UsizeModulus

\* Line 91: the end of the range data[..return_pos + 2].
WindowStop(rp) == (rp + 2) % UsizeModulus

\* Line 89: return_pos.unwrap_or(pos - 1).  The argument is evaluated
\* whether or not return_pos is set; at pos = 0 the subtraction overflows,
\* which panics in a build with overflow checks and wraps in one without.
\* Line 91: data[..return_pos + 2], with the same arithmetic; a range end
\* beyond data panics.
Finish(st) ==
    IF st.pos = 0 /\ overflow_checks THEN Fail(st, "Panic")
    ELSE LET fallback == (st.pos - 1 + UsizeModulus) % UsizeModulus
             rp == IF st.return_pos = None THEN fallback ELSE st.return_pos[1]
             wraps == st.pos = 0 \/ rp + 2 >= UsizeModulus
             stop == WindowStop(rp)
             done == [st EXCEPT !.wrapped = wraps]
         IN
         IF rp + 2 >= UsizeModulus /\ overflow_checks THEN Fail(done, "Panic")
         ELSE IF stop > SLen(st.d) THEN Fail(done, "Panic")
         ELSE [done EXCEPT !.status = "Ok",
                           !.labels = Slice(st.d.s, st.d.s + stop)]

\* Lines 43-87 and 89-93: one evaluation of the loop condition, followed by
\* one pass of the loop body or by the return.
ScanIter(st) ==
    IF st.byte = 0 THEN Finish(st)
    ELSE IF SLen(st.w) <= st.pos THEN Fail(st, "UnexpectedEOF")
    ELSE IF IsPointerByte(st.byte) THEN FollowPointer(st)
    ELSE IF IsLabelByte(st.byte) THEN TakeLabel(st)
    ELSE Fail(st, "UnknownLabelFormat")


\* Name::scan as a function of its argument: the loop run to its end.
RECURSIVE ScanRun(_)
ScanRun(st) == IF st.status = "run" THEN ScanRun(ScanIter(st)) ELSE st

ScanOf(d) == ScanRun(ScanCall(d))

\* Lines 96-98.
byte_len(labels) == SLen(labels)

\* ------------------------------------------------- Name::bytes, NameBytes

\* The iterator before bytes() is called.
NoIter ==
    [state |-> "none", remaining_labels |-> Slice(0, 0),
     current_label |-> Slice(0, 0)]

PanickedIter == [NoIter EXCEPT !.state = "Panic"]

\* slice.get(from..to) on a slice of length len: None unless from <= to <= len.
InRange(from, to, len) == from <= to /\ to <= len

\* Lines 100-145: bytes() of the Name whose labels window is `labels`.
\* Every Option::unwrap_or_else(|| panic!(..)) is a panic when the index or
\* the range is outside the slice.
bytes(labels) ==
    IF SLen(labels) >= 2 /\ At(labels.s) \div 64 = 3
    THEN LET pointer == PointerOffset(At(labels.s), At(labels.s + 1)) IN
         IF pointer >= Len(original) THEN PanickedIter
         ELSE LET len == At(pointer) IN
              IF ~InRange(pointer + 1 + len, Len(original), Len(original))
              THEN PanickedIter
              ELSE [state |-> "iter",
                    remaining_labels |->
                        Slice(pointer + 1 + len, Len(original)),
                    current_label |-> Slice(pointer + 1, pointer + 1 + len)]
    ELSE IF SLen(labels) # 0
    THEN LET len == At(labels.s) IN
         IF ~InRange(1 + len, SLen(labels), SLen(labels)) THEN PanickedIter
         ELSE [state |-> "iter",
               remaining_labels |-> Slice(labels.s + 1 + len, labels.e),
               current_label |-> Slice(labels.s + 1, labels.s + 1 + len)]
    ELSE [state |-> "iter", remaining_labels |-> labels,
          current_label |-> labels]

\* Line 165: remaining_labels.get(0) == Some(&0).
AtTerminator(remaining) == SLen(remaining) > 0 /\ At(remaining.s) = 0

\* Lines 158-179: one call of next().  The result is the iterator after the
\* call and what the call yields: a one-byte sequence, or <<>> for None.
next(i) ==
    IF SLen(i.current_label) > 0
    THEN [it |-> [i EXCEPT !.current_label.s = @ + 1],
          yield |-> <<At(i.current_label.s)>>]
    ELSE IF AtTerminator(i.remaining_labels)
    THEN [it |-> [i EXCEPT !.state = "done"], yield |-> <<>>]
    ELSE LET fresh == bytes(i.remaining_labels) IN
         IF fresh.state = "Panic" THEN [it |-> fresh, yield |-> <<>>]
         ELSE IF SLen(fresh.current_label) = 0
         THEN [it |-> [fresh EXCEPT !.state = "done"], yield |-> <<>>]
         ELSE [it |-> fresh, yield |-> <<46>>]

\* ---------------------------------------------------- fmt::Display for Name

Rendered(q) == [state |-> "ok", text |-> q]

RenderPanic == [state |-> "Panic", text |-> <<>>]

\* What is written before the rest of the name is rendered.
Prefixed(q, r) == IF r.state = "Panic" THEN RenderPanic ELSE Rendered(q \o r.text)

\* Lines 194-196 and 199-201: the separator written before a label or a
\* pointer that is not at the start of the window.
Separator(pos) == IF pos # 0 THEN <<46>> ELSE <<>>

\* Lines 183-210: the loop over the labels window, from pos on.  An index or
\* a range outside the window, a failed unwrap and unreachable!() panic.
RECURSIVE FmtFrom(_, _)
FmtFrom(labels, pos) ==
    IF pos >= SLen(labels) THEN RenderPanic
    ELSE LET byte == At(labels.s + pos) IN
         IF byte = 0 THEN Rendered(<<>>)
         ELSE IF IsPointerByte(byte)
         THEN IF pos + 2 > SLen(labels) THEN RenderPanic
              ELSE LET off == PointerOffset(byte, At(labels.s + pos + 1)) IN
                   IF off > Len(original) THEN RenderPanic
                   ELSE LET sub == ScanOf(Slice(off, Len(original))) IN
                        IF sub.status # "Ok" THEN RenderPanic
                        ELSE Prefixed(Separator(pos), FmtFrom(sub.labels, 0))
         ELSE IF IsLabelByte(byte)
         THEN LET end == pos + byte + 1 IN
              IF end > SLen(labels) THEN RenderPanic
              ELSE LET label == SliceBytes(Slice(labels.s + pos + 1, labels.s + end))
                   IN
                   IF ~Utf8Valid(label) THEN RenderPanic
                   ELSE Prefixed(Separator(pos) \o label, FmtFrom(labels, end))
         ELSE RenderPanic

fmt(labels) == FmtFrom(labels, 0)

\* ----------------------------------------------------------- the machine

\* Display has not been called.
NotRendered == [state |-> "none", text |-> <<>>]

\* `data` is a part of `original` (lines 29-31): any sub-slice of it.
DataSlices(b) ==
    {sl \in {Slice(s, e) : s \in 0..Len(b), e \in 0..Len(b)} : sl.s <= sl.e}

Init ==
    /\ original \in Buffers
    /\ data \in DataSlices(original)
    /\ overflow_checks \in BOOLEAN
    /\ scan = NotCalled
    /\ it = NoIter
    /\ out = <<>>
    /\ text = NotRendered

\* Name::scan(data, original) is called.
Scan ==
    /\ scan.status = "idle"
    /\ scan' = ScanCall(data)
    /\ UNCHANGED <<original, data, overflow_checks, it, out, text>>

\* Name::scan evaluates its loop condition and runs the body or returns.
ScanStep ==
    /\ scan.status = "run"
    /\ scan' = ScanIter(scan)
    /\ UNCHANGED <<original, data, overflow_checks, it, out, text>>

\* bytes() is called on the Name that scan returned.
CallBytes ==
    /\ scan.status = "Ok"
    /\ it.state = "none"
    /\ it' = bytes(scan.labels)
    /\ UNCHANGED <<original, data, overflow_checks, scan, out, text>>

\* next() is called on the iterator, until it has returned None.
CallNext ==
    /\ it.state = "iter"
    /\ LET r == next(it) IN
       /\ it' = r.it
       /\ out' = out \o r.yield
    /\ UNCHANGED <<original, data, overflow_checks, scan, text>>

\* The Name that scan returned is rendered with Display.
Display ==
    /\ scan.status = "Ok"
    /\ text = NotRendered
    /\ text' = fmt(scan.labels)
    /\ UNCHANGED <<original, data, overflow_checks, scan, it, out>>

Next == Scan \/ ScanStep \/ CallBytes \/ CallNext \/ Display

Spec == Init /\ [][Next]_vars

\* scan is a synchronous call: once called it runs to its return.
FairSpec == Spec /\ WF_vars(Scan) /\ WF_vars(ScanStep)


\* ------------------------------------------------------------ the claims

Whole(b) == Slice(0, Len(b))

\* scan has returned (a Name or an error) or has panicked.
Returned == scan.status \notin {"idle", "run"}

\* scan is at a compression pointer whose two bytes are in the window.
AtCompletePointer ==
    /\ scan.status = "run"
    /\ IsPointerByte(scan.byte)
    /\ SLen(scan.w) >= scan.pos + 2

\* The offset of the pointer at the cursor of scan.
CursorOffset ==
    PointerOffset(At(scan.w.s + scan.pos), At(scan.w.s + scan.pos + 1))

\* The labels of the name that starts at offset i of the buffer, through
\* every compression pointer of its chain, as a sequence of byte sequences.
RECURSIVE ChainLabels(_)
ChainLabels(i) ==
    LET byte == At(i) IN
    IF byte = 0 THEN <<>>
    ELSE IF IsPointerByte(byte)
    THEN ChainLabels(PointerOffset(byte, At(i + 1)))
    ELSE <<SliceBytes(Slice(i + 1, i + 1 + byte))>> \o ChainLabels(i + 1 + byte)

\* Labels joined by a single '.' (46) between consecutive ones.
RECURSIVE JoinDots(_)
JoinDots(ls) ==
    IF Len(ls) = 0 THEN <<>>
    ELSE IF Len(ls) = 1 THEN ls[1]
    ELSE ls[1] \o <<46>> \o JoinDots(Tail(ls))

\* The length of the encoding that starts at offset i and is walked from
\* pos: through the terminating zero, or through the second byte of the
\* first compression pointer.
RECURSIVE OwnEncodingLen(_, _)
OwnEncodingLen(i, pos) ==
    LET byte == At(i + pos) IN
    IF byte = 0 THEN pos + 1
    ELSE IF IsPointerByte(byte) THEN pos + 2
    ELSE OwnEncodingLen(i, pos + byte + 1)

\* C1: Name::scan terminates for every pair of buffers: once called, the
\* scan loop reaches the terminator or an error after finitely many steps,
\* whatever pointers the buffer holds.
C1_ScanTerminates == <>Returned

\* C1's case: the self-referential buffer of the tests has been scanned to
\* its end.
C1_Witness ==
    /\ original = SameOffsetBuf
    /\ data = Whole(original)
    /\ Returned

\* C2: the targets of the pointers followed within one scan are strictly
\* decreasing: at a pointer whose offset is inside the buffer, once a pointer
\* has been followed (its target is the start of the current window), an
\* offset at or above that target makes scan return BadPointer and a smaller
\* one becomes the next target; the two buffers of the tests fail with
\* BadPointer.
C2_PointersStrictlyDecrease ==
    /\ [][(/\ AtCompletePointer
           /\ CursorOffset < Len(original)
           /\ scan.return_pos # None)
          => IF CursorOffset >= scan.w.s
             THEN scan'.status = "BadPointer"
             ELSE scan'.status = "run" /\ scan'.w.s = CursorOffset]_vars
    /\ [](/\ original \in {SameOffsetBuf, ForwardOffsetBuf}
          /\ data = Whole(original)
          /\ Returned
          => scan.status = "BadPointer")

\* C2's case: the two pointers that target each other have been rejected.
C2_Witness ==
    /\ original = ForwardOffsetBuf
    /\ data = Whole(original)
    /\ scan.status = "BadPointer"
    /\ scan.return_pos # None
    /\ scan.w.s = 2

\* C3: the Display rendering of a scanned Name is the non-empty labels of
\* its chain, in order, joined by a single '.', with no leading and no
\* trailing '.'; the names at offsets 0, 4 and 9 of the nested buffer render
\* as "xx", "yy.xx" and "zz.yy.xx".
C3_DisplayJoinsLabels ==
    /\ (scan.status = "Ok" /\ text.state # "none")
       => text = Rendered(JoinDots(ChainLabels(scan.labels.s)))
    /\ (original = NestedBuf /\ data.e = Len(original) /\ text.state # "none")
       => /\ data.s = 0 => text = Rendered(<<120, 120>>)
          /\ data.s = 4 => text = Rendered(<<121, 121, 46, 120, 120>>)
          /\ data.s = 9
             => text = Rendered(<<122, 122, 46, 121, 121, 46, 120, 120>>)

\* C4: the labels window of a scanned Name is the prefix of data through
\* the terminating zero, or through the second byte of the first pointer;
\* byte_len is its length and never exceeds data.len(); it is 5 for the name
\* at offset 4 of the nested buffer.
C4_WindowIsOwnEncoding ==
    /\ scan.status = "Ok"
       => /\ scan.labels = Slice(data.s, data.s + OwnEncodingLen(data.s, 0))
          /\ byte_len(scan.labels) <= SLen(data)
    /\ (original = NestedBuf /\ data = Slice(4, Len(original)) /\ Returned)
       => /\ scan.status = "Ok"
          /\ byte_len(scan.labels) = 5
          /\ SliceBytes(scan.labels) = <<2, 121, 121, 192, 0>>

\* C4's case: a Name whose window ends with a pointer that follows a label.
C4_Witness ==
    /\ scan.status = "Ok"
    /\ scan.return_pos # None
    /\ scan.return_pos # Some(0)
    /\ byte_len(scan.labels) < SLen(data)

\* C5: bytes() and then next() until None never fails on a scanned Name: no
\* call panics or indexes outside the buffer.
C5_IterationNeverFails == it.state # "Panic"

\* C6: the bytes yielded by bytes() are, byte for byte, the text of the
\* Display rendering of the same Name.
C6_BytesEqualDisplay ==
    (it.state = "done" /\ text.state # "none") => text = Rendered(out)

\* C7: the root name: scan of the one-byte buffer [0] succeeds with
\* byte_len 1, its bytes() sequence is empty and it renders as the empty
\* string.
C7_RootName ==
    (original = <<0>> /\ data = Whole(original))
    => /\ Returned => scan.status = "Ok" /\ byte_len(scan.labels) = 1
       /\ it.state # "Panic"
       /\ out = <<>>
       /\ text.state # "none" => text = Rendered(<<>>)

C9_TruncationIsUnexpectedEOF ==
    /\ scan.status = "Ok"
       => \A k \in 0..(byte_len(scan.labels) - 1) :
             ScanOf(Slice(data.s, data.s + k)).status = "UnexpectedEOF"
    /\ (/\ scan.status = "run"
        /\ scan.byte # 0
        /\ IsLabelByte(scan.byte)
        /\ scan.pos + scan.byte + 1 > SLen(scan.w))
       => ScanIter(scan).status = "UnexpectedEOF"

\* C9's case: a Name that starts with a label of two bytes or more, whose
\* prefixes cut it inside the label, after the label and before its end.
C9_Witness ==
    /\ scan.status = "Ok"
    /\ IsLabelByte(At(data.s))
    /\ At(data.s) >= 2
    /\ byte_len(scan.labels) >= 4

\* C10: scan never panics and none of its unsigned arithmetic goes below
\* zero or overflows: every call ends with Ok or one of the four errors.
C10_ScanNeverPanics == scan.status # "Panic" /\ ~scan.wrapped

=============================================================================
